---------------------------- MODULE Spec2Model ----------------------------
(***************************************************************************)
(* Model of snake_puzzle.py: the depth-first search of solve() and         *)
(* Segment.is_valid() over an occupancy cube of side SIZE.                 *)
(*                                                                         *)
(* The recursion of is_valid is an explicit stack: `frames` holds one      *)
(* activation per is_valid call in progress and `chain` holds the Segment  *)
(* objects reachable from solve's local `segment` through next_segment     *)
(* (chain[i].next_segment is 0 for None, else i + 1).  `ret` is the value  *)
(* a call that has just finished hands to its caller.                      *)
(*                                                                         *)
(* DIRECTIONS is iterated in insertion order (the order of a dict          *)
(* literal's keys, guaranteed by the language from Python 3.7).            *)
(***************************************************************************)
EXTENDS Integers, Sequences, FiniteSets

VARIABLES
    SIZE,             \* module constant SIZE (line 12)
    segment_lengths,  \* the argument of solve
    loop,             \* solve's loop variables x, y, z and directions consumed
    chain,            \* Segment objects reachable from solve's `segment`
    frames,           \* activations of is_valid, innermost last
    ret,              \* "None", or the value being returned: "True" / "False"
    result,           \* "None" while running, else the outcome of the run
    probe             \* what the latest pass through lines 126-136 touched

vars == <<SIZE, segment_lengths, loop, chain, frames, ret, result, probe>>

\* Largest sum of a list of segment lengths drawn as input.
MaxSum == 7
\* Largest single segment length drawn as input.
MaxSegment == 3
\* Largest sum of the module's SEGMENT_LENGTHS, which fixes SIZE.
MaxTotal == 16
\* Longest list of lengths handed to a direct call of Segment.is_valid.
MaxDirect == 2

---------------------------------------------------------------------------
\* Helpers

RECURSIVE Sum(_)
Sum(s) == IF s = <<>> THEN 0 ELSE Head(s) + Sum(Tail(s))

Range(s) == {s[i] : i \in 1..Len(s)}

Cube3(n) == n * n * n

RECURSIVE Compositions(_)
\* Every list of lengths in 1..MaxSegment whose sum is n.
Compositions(n) ==
    IF n = 0 THEN {<<>>}
    ELSE UNION {{<<f>> \o r : r \in Compositions(n - f)} :
                    f \in 1..(IF n < MaxSegment THEN n ELSE MaxSegment)}

\* The two lists of sum 8 (a full cube of side 2) of the puzzle's test
\* scenarios: one that has a chain and one that has none.
Scenarios == {<<2, 1, 1, 1, 1, 1, 1>>, <<2, 2, 1, 1, 1, 1>>}

\* The non-empty lists of positive lengths the model draws.
Inputs == UNION {Compositions(n) : n \in 1..MaxSum} \cup Scenarios

---------------------------------------------------------------------------
\* Module-level definitions of snake_puzzle.py

\* round(total ** (1.0 / 3)): the integer k nearest to the cube root,
\* i.e. (k - 1/2)^3 <= total < (k + 1/2)^3 (a cube root is never k + 1/2).
CubeSide(total) ==
    CHOOSE k \in 0..total : /\ Cube3(2 * k - 1) <= 8 * total
                            /\ 8 * total < Cube3(2 * k + 1)

\* Faulty variant: '-x' listed before '+x'.
DIRECTIONS_reordered ==
    << <<"-", "x">>, <<"+", "x">>, <<"+", "y">>, <<"-", "y">>,
       <<"+", "z">>, <<"-", "z">> >>

\* The keys of DIRECTIONS in iteration order; a key is its two characters.
DIRECTIONS ==
    << <<"+", "x">>, <<"-", "x">>, <<"+", "y">>, <<"-", "y">>,
       <<"+", "z">>, <<"-", "z">> >>

Coords(x, y, z) == [x |-> x, y |-> y, z |-> z]

get_coords(coords, direction, distance) ==
    CASE direction = <<"+", "x">> -> Coords(coords.x + distance, coords.y, coords.z)
      [] direction = <<"-", "x">> -> Coords(coords.x - distance, coords.y, coords.z)
      [] direction = <<"+", "y">> -> Coords(coords.x, coords.y + distance, coords.z)
      [] direction = <<"-", "y">> -> Coords(coords.x, coords.y - distance, coords.z)
      [] direction = <<"+", "z">> -> Coords(coords.x, coords.y, coords.z + distance)
      [] direction = <<"-", "z">> -> Coords(coords.x, coords.y, coords.z - distance)

\* Faulty variant: `> SIZE` for `>= SIZE`.
are_coords_invalid_off_by_one(coords) ==
    \E c \in {"x", "y", "z"} : coords[c] < 0 \/ coords[c] > SIZE

\* Faulty variant: the upper bound is not checked.
are_coords_invalid_lower_only(coords) ==
    \E c \in {"x", "y", "z"} : coords[c] < 0

are_coords_invalid(coords) ==
    \E c \in {"x", "y", "z"} : coords[c] < 0 \/ coords[c] >= SIZE

\* The subscripts cube[..][..][..] takes for block i of `segment`.
segment_index(segment, i) ==
    CASE segment.direction = <<"+", "x">> ->
            Coords(segment.coords.x + i, segment.coords.y, segment.coords.z)
      [] segment.direction = <<"-", "x">> ->
            Coords(segment.coords.x - i, segment.coords.y, segment.coords.z)
      [] segment.direction = <<"+", "y">> ->
            Coords(segment.coords.x, segment.coords.y + i, segment.coords.z)
      [] segment.direction = <<"-", "y">> ->
            Coords(segment.coords.x, segment.coords.y - i, segment.coords.z)
      [] segment.direction = <<"+", "z">> ->
            Coords(segment.coords.x, segment.coords.y, segment.coords.z + i)
      [] segment.direction = <<"-", "z">> ->
            Coords(segment.coords.x, segment.coords.y, segment.coords.z - i)

\* Subscripting a tuple of SIZE items: -SIZE..-1 count from the end, anything
\* outside -SIZE..SIZE-1 raises IndexError.
subscript_ok(i) == -SIZE <= i /\ i < SIZE
subscript(i) == IF i < 0 THEN i + SIZE ELSE i
index_ok(idx) == subscript_ok(idx.x) /\ subscript_ok(idx.y) /\ subscript_ok(idx.z)
cell_of(idx) == Coords(subscript(idx.x), subscript(idx.y), subscript(idx.z))

\* The subscripts the generator of crosses_occupied_block evaluates, in
\* order: all of them, or those up to the first that raises IndexError.
cube_reads(segment) ==
    LET bad == {i \in 0..(segment.length - 1) : ~index_ok(segment_index(segment, i))}
        last == IF bad = {} THEN segment.length - 1
                ELSE CHOOSE i \in bad : \A j \in bad : i <= j
    IN  [i \in 1..(last + 1) |-> segment_index(segment, i - 1)]

raises_IndexError(segment) ==
    \E i \in 0..(segment.length - 1) : ~index_ok(segment_index(segment, i))

\* Faulty variant: the segment's first block is not looked up.
crosses_occupied_block_skips_first(cube, segment) ==
    LET idx == cube_reads(segment)
    IN  Sum([i \in 1..(Len(idx) - 1) |->
                cube[subscript(idx[i + 1].x)][subscript(idx[i + 1].y)][subscript(idx[i + 1].z)]])

\* The sum crosses_occupied_block returns (when no subscript raises).
crosses_occupied_block(cube, segment) ==
    LET idx == cube_reads(segment)
    IN  Sum([i \in 1..Len(idx) |->
                cube[subscript(idx[i].x)][subscript(idx[i].y)][subscript(idx[i].z)]])

empty_cube ==
    [x \in 0..(SIZE - 1) |-> [y \in 0..(SIZE - 1) |-> [z \in 0..(SIZE - 1) |-> 0]]]

\* Faulty variant: only the segment's first block is marked.
get_cube_state_first_only(initial_cube, segment) ==
    LET marked == {cell_of(segment_index(segment, 0))}
    IN  [x \in 0..(SIZE - 1) |-> [y \in 0..(SIZE - 1) |-> [z \in 0..(SIZE - 1) |->
            initial_cube[x][y][z] + IF Coords(x, y, z) \in marked THEN 1 ELSE 0]]]

get_cube_state(initial_cube, segment) ==
    LET marked == {cell_of(segment_index(segment, i)) : i \in 0..(segment.length - 1)}
        segment_cube ==
            [x \in 0..(SIZE - 1) |-> [y \in 0..(SIZE - 1) |-> [z \in 0..(SIZE - 1) |->
                IF Coords(x, y, z) \in marked THEN 1 ELSE 0]]]
    IN  [x \in 0..(SIZE - 1) |-> [y \in 0..(SIZE - 1) |-> [z \in 0..(SIZE - 1) |->
            initial_cube[x][y][z] + segment_cube[x][y][z]]]]

---------------------------------------------------------------------------
\* class Segment

Segment(coords, length, direction, initial_cube, lengths) ==
    [coords |-> coords, length |-> length, direction |-> direction,
     initial_cube |-> initial_cube, segment_lengths |-> lengths,
     next_segment |-> 0]

\* Faulty variant: the chain is taken to end one segment early.
_is_last_segment_early(self) == Len(self.segment_lengths) <= 1

_is_last_segment(self) == self.segment_lengths = <<>>

\* Faulty variants: the next segment reuses this segment's length; the
\* remaining lengths are handed on unconsumed.
segment_length_reused(self) == self.length
next_segment_lengths_unconsumed(self) == self.segment_lengths

\* Lines 134-135: the next segment's length and the lengths after it.
segment_length(self) == Head(self.segment_lengths)
next_segment_lengths(self) == Tail(self.segment_lengths)

\* Faulty variant: only the segment's own direction is excluded.
_possible_directions_gen_no_reverse_check(self) ==
    SelectSeq(DIRECTIONS, LAMBDA d : d # self.direction)

\* direction[1] is the axis character; `not in d` is a substring test.
_possible_directions_gen(self) ==
    SelectSeq(DIRECTIONS, LAMBDA d : self.direction[2] \notin Range(d))

\* The frame of a call that has not run yet, and of one inside its loop.
NewFrame == [pc |-> "start"]
LoopFrame(end_coords, cube, directions) ==
    [pc |-> "loop", end_coords |-> end_coords, cube |-> cube,
     directions |-> directions]

Probe(self, reads, writes, outcome) ==
    <<[coords |-> self.coords, direction |-> self.direction, length |-> self.length,
       reads |-> reads, writes |-> writes, outcome |-> outcome]>>

Pop(s) == SubSeq(s, 1, Len(s) - 1)

\* is_valid, lines 126-136: the checks of one segment, up to the loop.
is_valid_start ==
    /\ result = "None" /\ ret = "None"
    /\ frames # <<>> /\ frames[Len(frames)].pc = "start"
    /\ LET self == chain[Len(frames)]
           end_coords == get_coords(self.coords, self.direction, self.length - 1)
           reads == Range(cube_reads(self))
       IN  IF are_coords_invalid(end_coords)
           THEN /\ frames' = Pop(frames)
                /\ ret' = "False"
                /\ probe' = Probe(self, {}, {}, "False")
                /\ UNCHANGED result
           ELSE IF raises_IndexError(self)
           THEN /\ frames' = <<>>
                /\ result' = "IndexError"
                /\ probe' = Probe(self, reads, {}, "IndexError")
                /\ UNCHANGED ret
           ELSE IF crosses_occupied_block(self.initial_cube, self) # 0
           THEN /\ frames' = Pop(frames)
                /\ ret' = "False"
                /\ probe' = Probe(self, reads, {}, "False")
                /\ UNCHANGED result
           ELSE IF _is_last_segment(self)
           THEN /\ frames' = Pop(frames)
                /\ ret' = "True"
                /\ probe' = Probe(self, reads, {}, "True")
                /\ UNCHANGED result
           ELSE /\ frames' = [frames EXCEPT ![Len(frames)] =
                        LoopFrame(end_coords,
                                  get_cube_state(self.initial_cube, self),
                                  _possible_directions_gen(self))]
                /\ probe' = Probe(self, reads, reads, "loop")
                /\ UNCHANGED <<ret, result>>
    /\ UNCHANGED <<SIZE, segment_lengths, loop, chain>>

\* is_valid, lines 137-142 and 145: one iteration of the loop over the
\* possible directions, or the end of the loop.
is_valid_loop ==
    /\ result = "None" /\ ret = "None"
    /\ frames # <<>> /\ frames[Len(frames)].pc = "loop"
    /\ LET n == Len(frames)
           self == chain[n]
           f == frames[n]
       IN  IF f.directions = <<>>
           THEN /\ frames' = Pop(frames)
                /\ ret' = "False"
                /\ UNCHANGED chain
           ELSE LET direction == Head(f.directions)
                    start_coords == get_coords(f.end_coords, direction, 1)
                    advanced == [frames EXCEPT ![n].directions = Tail(f.directions)]
                IN  IF are_coords_invalid(start_coords)
                    THEN /\ frames' = advanced
                         /\ UNCHANGED <<chain, ret>>
                    ELSE /\ chain' = Append(
                                [SubSeq(chain, 1, n) EXCEPT ![n].next_segment = n + 1],
                                Segment(start_coords, segment_length(self),
                                        direction, f.cube, next_segment_lengths(self)))
                         /\ frames' = Append(advanced, NewFrame)
                         /\ UNCHANGED ret
    /\ UNCHANGED <<SIZE, segment_lengths, loop, result, probe>>

\* Faulty variant: a successor whose call failed is detached again.
is_valid_returned_detaching ==
    /\ result = "None" /\ ret # "None"
    /\ frames # <<>>
    /\ IF ret = "True"
       THEN frames' = Pop(frames) /\ UNCHANGED <<ret, chain>>
       ELSE /\ ret' = "None"
            /\ chain' = [SubSeq(chain, 1, Len(frames))
                            EXCEPT ![Len(frames)].next_segment = 0]
            /\ UNCHANGED frames
    /\ UNCHANGED <<SIZE, segment_lengths, loop, result, probe>>

\* is_valid, lines 143-144: the recursive call has returned.
is_valid_returned ==
    /\ result = "None" /\ ret # "None"
    /\ frames # <<>>
    /\ IF ret = "True"
       THEN frames' = Pop(frames) /\ UNCHANGED ret
       ELSE ret' = "None" /\ UNCHANGED frames
    /\ UNCHANGED <<SIZE, segment_lengths, loop, chain, result, probe>>

---------------------------------------------------------------------------
\* solve

\* solve, lines 161-166 and 169: the next step of the nested loops.
solve_iter ==
    /\ result = "None" /\ ret = "None" /\ frames = <<>>
    /\ IF loop.k < Len(DIRECTIONS)
       THEN /\ chain' = <<Segment(Coords(loop.x, loop.y, loop.z),
                                  Head(segment_lengths), DIRECTIONS[loop.k + 1],
                                  empty_cube, Tail(segment_lengths))>>
            /\ frames' = <<NewFrame>>
            /\ loop' = [loop EXCEPT !.k = loop.k + 1]
            /\ UNCHANGED result
       ELSE IF loop.z + 1 < SIZE
       THEN /\ loop' = [loop EXCEPT !.z = loop.z + 1, !.k = 0]
            /\ UNCHANGED <<chain, frames, result>>
       ELSE IF loop.y + 1 < SIZE
       THEN /\ loop' = [loop EXCEPT !.y = loop.y + 1, !.z = 0, !.k = 0]
            /\ UNCHANGED <<chain, frames, result>>
       ELSE IF loop.x + 1 < SIZE
       THEN /\ loop' = [x |-> loop.x + 1, y |-> 0, z |-> 0, k |-> 0]
            /\ UNCHANGED <<chain, frames, result>>
       ELSE /\ result' = "No solution"
            /\ UNCHANGED <<chain, frames, loop>>
    /\ UNCHANGED <<SIZE, segment_lengths, ret, probe>>

\* solve, lines 167-168: segment.is_valid() has returned.
solve_returned ==
    /\ result = "None" /\ ret # "None" /\ frames = <<>>
    /\ IF ret = "True" THEN result' = "Segment" ELSE UNCHANGED result
    /\ ret' = "None"
    /\ UNCHANGED <<SIZE, segment_lengths, loop, chain, frames, probe>>

\* The module is loaded with some SEGMENT_LENGTHS, whose sum `total` fixes
\* SIZE (line 12), and solve is called with a list of lengths.
Init ==
    /\ \E total \in 1..MaxTotal : SIZE = CubeSide(total)
    /\ segment_lengths \in Inputs
    /\ loop = [x |-> 0, y |-> 0, z |-> 0, k |-> 0]
    /\ chain = <<>>
    /\ frames = <<>>
    /\ ret = "None"
    /\ result = "None"
    /\ probe = <<>>

Next ==
    \/ solve_iter
    \/ solve_returned
    \/ is_valid_start
    \/ is_valid_loop
    \/ is_valid_returned

Spec == Init /\ [][Next]_vars

\* A direct call of is_valid on a Segment built by the caller: any start
\* coordinate in or one step around the cube, any direction, an empty cube.
InitSeg ==
    /\ \E total \in 1..MaxTotal : SIZE = CubeSide(total)
    /\ segment_lengths \in {l \in Inputs : Len(l) <= MaxDirect}
    /\ \E x, y, z \in (0 - 1)..SIZE, k \in 1..Len(DIRECTIONS) :
          chain = <<Segment(Coords(x, y, z), Head(segment_lengths), DIRECTIONS[k],
                            empty_cube, Tail(segment_lengths))>>
    /\ frames = <<NewFrame>>
    /\ loop = [x |-> 0, y |-> 0, z |-> 0, k |-> 0]
    /\ ret = "None"
    /\ result = "None"
    /\ probe = <<>>

\* The direct call has returned to its caller.
caller_returned ==
    /\ result = "None" /\ ret # "None" /\ frames = <<>>
    /\ result' = ret
    /\ ret' = "None"
    /\ UNCHANGED <<SIZE, segment_lengths, loop, chain, frames, probe>>

NextSeg ==
    \/ is_valid_start
    \/ is_valid_loop
    \/ is_valid_returned
    \/ caller_returned

SpecSeg == InitSeg /\ [][NextSeg]_vars

\* The search is one thread that runs until solve returns or raises.
FairSpec == Spec /\ WF_vars(Next)

Done == result # "None"

Terminates == <>Done

---------------------------------------------------------------------------
\* Vocabulary of the properties, stated without the program's operators

\* The cells of the cube.
Cells == {Coords(x, y, z) : x, y, z \in 0..(SIZE - 1)}

Axis(direction) == direction[2]

\* The cell n steps from c along direction.
Moved(c, direction, n) ==
    LET k == IF direction[1] = "+" THEN n ELSE 0 - n
    IN  CASE Axis(direction) = "x" -> [x |-> c.x + k, y |-> c.y, z |-> c.z]
          [] Axis(direction) = "y" -> [x |-> c.x, y |-> c.y + k, z |-> c.z]
          [] Axis(direction) = "z" -> [x |-> c.x, y |-> c.y, z |-> c.z + k]

FirstCell(seg) == seg.coords
LastCell(seg) == Moved(seg.coords, seg.direction, seg.length - 1)

\* The cells a segment covers.
Covered(seg) == {Moved(seg.coords, seg.direction, i) : i \in 0..(seg.length - 1)}

\* The cells covered by the first n segments of the chain.
CoveredBefore(n) == UNION {Covered(chain[j]) : j \in 1..(n - 1)}

Lengths(c) == [i \in 1..Len(c) |-> c[i].length]

\* solve has returned a chain: `chain` is the returned segment and its
\* successors.
Returned == result = "Segment"

---------------------------------------------------------------------------
\* C1: in every chain solve returns, the segments' covered cells are
\* pairwise disjoint, no segment covers a cell twice, and every covered
\* cell lies in [0, SIZE)^3.
C1_DisjointInBounds ==
    Returned =>
        /\ \A i \in 1..Len(chain) :
              /\ Covered(chain[i]) \subseteq Cells
              /\ Cardinality(Covered(chain[i])) = chain[i].length
        /\ \A i, j \in 1..Len(chain) :
              i # j => Covered(chain[i]) \cap Covered(chain[j]) = {}

\* A returned chain of at least four segments, one of them longer than a
\* cell, in a cube it fills completely.
C1_Witness ==
    /\ Returned
    /\ Len(chain) >= 4
    /\ \E i \in 1..Len(chain) : chain[i].length >= 2
    /\ CoveredBefore(Len(chain) + 1) = Cells

\* C2: consecutive segments of a chain run along different axes, and the
\* candidate directions of the loop after a segment are exactly the four
\* directions off that segment's axis.
OffAxis(direction) == {d \in Range(DIRECTIONS) : Axis(d) # Axis(direction)}

C2_TurnsState ==
    \A i \in 1..(Len(chain) - 1) :
        /\ chain[i + 1].direction # chain[i].direction
        /\ Axis(chain[i + 1].direction) # Axis(chain[i].direction)

C2_Candidates ==
    (/\ frames # <<>>
     /\ Len(frames') = Len(frames)
     /\ frames[Len(frames)].pc = "start"
     /\ frames'[Len(frames)].pc = "loop")
    => LET cand == frames'[Len(frames)].directions
       IN  /\ Len(cand) = 4
           /\ Range(cand) = OffAxis(chain[Len(frames)].direction)

\* C2: every joint is a turn in every state, and every entry into the loop
\* sets up exactly the four off-axis candidates.
C2_Turns == []C2_TurnsState /\ [][C2_Candidates]_vars

\* A returned chain with at least three joints.
C2_Witness == Returned /\ Len(chain) >= 4 /\ C2_TurnsState

\* C3 as stated: the lengths of a returned chain sum to the cube of the side
\* derived from solve's argument.
C3_SumIsArgumentCube ==
    Returned => Sum(Lengths(chain)) = Cube3(CubeSide(Sum(segment_lengths)))

\* C3 as amended: the lengths of a returned chain sum to the sum of the
\* argument, which is at most SIZE^3, and the chain covers the whole cube
\* exactly when the argument sums to SIZE^3.
C3_SumIsArgumentSum ==
    Returned =>
        /\ Sum(Lengths(chain)) = Sum(segment_lengths)
        /\ Sum(Lengths(chain)) = Cardinality(CoveredBefore(Len(chain) + 1))
        /\ Sum(segment_lengths) <= Cube3(SIZE)
        /\ (CoveredBefore(Len(chain) + 1) = Cells) <=>
               (Sum(segment_lengths) = Cube3(SIZE))

\* A returned chain whose lengths sum to SIZE^3 in a cube of side 2.
C3_Witness ==
    /\ Returned
    /\ SIZE = 2
    /\ Sum(segment_lengths) = Cube3(SIZE)
    /\ CoveredBefore(Len(chain) + 1) = Cells

\* C10: a returned chain has one node per input length, in input order,
\* the last node has no successor, every other node's successor is the next
\* node, and each later node starts one step from its predecessor's last
\* cell in its own direction.
C10_ChainShape ==
    Returned =>
        /\ Len(chain) = Len(segment_lengths)
        /\ \A i \in 1..Len(chain) : chain[i].length = segment_lengths[i]
        /\ chain[Len(chain)].next_segment = 0
        /\ \A i \in 1..(Len(chain) - 1) :
              /\ chain[i].next_segment = i + 1
              /\ FirstCell(chain[i + 1]) =
                    Moved(LastCell(chain[i]), chain[i + 1].direction, 1)

\* A returned chain of at least three nodes with two different lengths.
C10_Witness ==
    /\ Returned
    /\ Len(chain) >= 3
    /\ \E i, j \in 1..Len(chain) : chain[i].length # chain[j].length

---------------------------------------------------------------------------
\* What a complete valid chain is, independent of the search

\* The order in which solve is said to try the six directions.
ClaimedOrder ==
    << <<"+", "x">>, <<"-", "x">>, <<"+", "y">>, <<"-", "y">>,
       <<"+", "z">>, <<"-", "z">> >>

DirRank(direction) == CHOOSE i \in 1..6 : ClaimedOrder[i] = direction

\* Position of a (coordinate, direction) pair in the claimed enumeration:
\* x outermost, y middle, z innermost, then the direction.
RootRank(c, direction) ==
    ((c.x * SIZE + c.y) * SIZE + c.z) * 6 + DirRank(direction)

RECURSIVE CanPlace(_, _, _, _)
\* A chain exists that starts at `start` along `direction`, uses the
\* lengths `lens` in order, stays in the cube, avoids `occupied` and
\* itself, and turns at every joint.
CanPlace(start, direction, lens, occupied) ==
    LET seg == [coords |-> start, direction |-> direction, length |-> Head(lens)]
    IN  /\ Covered(seg) \subseteq Cells
        /\ Covered(seg) \cap occupied = {}
        /\ \/ Len(lens) = 1
           \/ \E d \in OffAxis(direction) :
                 CanPlace(Moved(LastCell(seg), d, 1), d, Tail(lens),
                          occupied \cup Covered(seg))

Occupied(cube) == {c \in Cells : cube[c.x][c.y][c.z] # 0}

\* C4: solve returns the chain of the first (coordinate, direction) pair, in
\* the order x, y, z ascending then +x, -x, +y, -y, +z, -z, from which a
\* complete valid chain exists, and "No solution" exactly when there is none.
C4_FirstInOrder ==
    Done =>
        /\ result \in {"Segment", "No solution"}
        /\ Returned =>
              /\ CanPlace(chain[1].coords, chain[1].direction, segment_lengths, {})
              /\ \A c \in Cells, d \in Range(ClaimedOrder) :
                    RootRank(c, d) < RootRank(chain[1].coords, chain[1].direction)
                        => ~CanPlace(c, d, segment_lengths, {})
        /\ (result = "No solution") <=>
              (\A c \in Cells, d \in Range(ClaimedOrder) :
                    ~CanPlace(c, d, segment_lengths, {}))

\* solve returned a chain whose first pair is not the first of the
\* enumeration: earlier pairs were tried and have no chain.
C4_Witness ==
    /\ Returned
    /\ RootRank(chain[1].coords, chain[1].direction) > 6
    /\ Len(chain) >= 3

\* C5: in a cube of side 2, solve((2, 2, 1, 1, 1, 1)) is "No solution".
C5_NoSolution ==
    (Done /\ SIZE = 2 /\ segment_lengths = <<2, 2, 1, 1, 1, 1>>)
        => result = "No solution"

C5_Witness ==
    /\ SIZE = 2
    /\ segment_lengths = <<2, 2, 1, 1, 1, 1>>
    /\ result = "No solution"

\* C6 as stated: a segment whose start or end is outside the cube fails at
\* once, before any cell of the cube is read, and no subscript outside
\* [0, SIZE) is ever read or written.
ProbedStart == probe[1].coords
ProbedEnd == Moved(probe[1].coords, probe[1].direction, probe[1].length - 1)

C6_StartOrEndRejected ==
    probe # <<>> =>
        /\ (ProbedStart \notin Cells \/ ProbedEnd \notin Cells) =>
              /\ probe[1].outcome = "False"
              /\ probe[1].reads = {}
              /\ probe[1].writes = {}
        /\ probe[1].reads \cup probe[1].writes \subseteq Cells

\* C6 as amended: a segment whose end is outside the cube fails at once,
\* before any cell is read or written; a segment whose start and end are
\* both inside only reads and writes subscripts in [0, SIZE).
C6_EndRejected ==
    probe # <<>> =>
        /\ ProbedEnd \notin Cells =>
              /\ probe[1].outcome = "False"
              /\ probe[1].reads = {}
              /\ probe[1].writes = {}
        /\ (ProbedStart \in Cells /\ ProbedEnd \in Cells) =>
              /\ probe[1].outcome # "IndexError"
              /\ probe[1].reads \cup probe[1].writes \subseteq Cells

\* A segment that starts inside the cube and ends outside it was rejected
\* with nothing read.
C6_Witness ==
    /\ probe # <<>>
    /\ ProbedStart \in Cells
    /\ ProbedEnd \notin Cells
    /\ probe[1].outcome = "False"
    /\ probe[1].reads = {}

\* C7: solve terminates, with a chain or "No solution" and nothing else,
\* and each recursive call consumes exactly one remaining length.
C7_Outcome == result \in {"None", "Segment", "No solution"}

C7_Consumes ==
    \A i \in 1..Len(chain) :
        Len(chain[i].segment_lengths) = Len(segment_lengths) - i

\* C7: the run ends, only ever with a chain or "No solution", and node i
\* of the path holds the lengths after the i-th.
C7_Terminates == <>Done /\ []C7_Outcome /\ []C7_Consumes

\* A search that ran into recursion and ended without a chain.
C7_Witness ==
    /\ result = "No solution"
    /\ SIZE >= 2
    /\ Len(segment_lengths) >= 4
    /\ Len(chain) >= 2

\* C8: the cube handed to a segment has exactly the cells of the segments
\* before it on its path occupied, as many as their lengths sum to and at
\* most SIZE^3; cells of backtracked siblings are not among them.
C8_CubeIsAncestors ==
    LET cover == [j \in 1..Len(chain) |-> Covered(chain[j])]
    IN  \A i \in 1..Len(chain) :
            LET cube == chain[i].initial_cube
                before == UNION {cover[j] : j \in 1..(i - 1)}
            IN  /\ \A x, y, z \in 0..(SIZE - 1) :
                      cube[x][y][z] = IF [x |-> x, y |-> y, z |-> z] \in before
                                      THEN 1 ELSE 0
                /\ Cardinality(before) = Sum([j \in 1..(i - 1) |-> chain[j].length])
                /\ Cardinality(before) <= Cube3(SIZE)

\* A segment about to be checked whose earlier sibling was placed, handed
\* its cube to a child, failed and was backtracked.
C8_Witness ==
    /\ ret = "None"
    /\ Len(frames) >= 2
    /\ frames[Len(frames)].pc = "start"
    /\ LET n == Len(frames)
           p == frames[n - 1]
       IN  \E d \in OffAxis(chain[n - 1].direction) \ (Range(p.directions) \cup {chain[n].direction}) :
              LET sib == [coords |-> Moved(p.end_coords, d, 1), direction |-> d,
                          length |-> chain[n].length]
              IN  /\ Covered(sib) \subseteq Cells
                  /\ Covered(sib) \cap Occupied(p.cube) = {}
                  /\ chain[n].segment_lengths # <<>>
                  /\ \E d2 \in OffAxis(d) : Moved(LastCell(sib), d2, 1) \in Cells
                  /\ ~(Covered(sib) \subseteq Occupied(chain[n].initial_cube))

\* The node whose is_valid call has just returned `ret`.
Returning == chain[Len(frames) + 1]

\* The candidate successors of node r that the loop constructs: those whose
\* start is inside the cube, in the claimed order.
Constructed(r) ==
    SelectSeq(ClaimedOrder,
              LAMBDA d : d \in OffAxis(r.direction) /\ Moved(LastCell(r), d, 1) \in Cells)

\* Node r passed its own checks and went on to its loop.
Recursed(r) ==
    /\ Covered(r) \subseteq Cells
    /\ Covered(r) \cap Occupied(r.initial_cube) = {}
    /\ r.segment_lengths # <<>>

\* The chain from node i on is complete: linked to a last node that uses
\* the last length.
CompleteFrom(i) ==
    /\ Len(chain) = Len(segment_lengths)
    /\ \A j \in i..(Len(chain) - 1) : chain[j].next_segment = j + 1
    /\ chain[Len(chain)].next_segment = 0

\* C9 as stated: a node that returns failure has no successor attached, and
\* a non-terminal node that returns success has the successful node attached.
C9_AttachedOnlyOnSuccess ==
    ret # "None" =>
        /\ ret = "False" => Returning.next_segment = 0
        /\ (ret = "True" /\ Returning.segment_lengths # <<>>) =>
              /\ Returning.next_segment = Len(frames) + 2
              /\ CompleteFrom(Len(frames) + 1)

\* C9 as amended: the successor is attached when it is constructed, before
\* its recursive call.  A node that returns failure has no successor only if
\* it constructed none; otherwise it keeps the last one it constructed,
\* which failed.  A non-terminal node that returns success has the node
\* whose recursive call succeeded attached: the first constructed candidate
\* from which a chain exists.
C9_AttachedWhenConstructed ==
    ret # "None" =>
        LET r == Returning
            n == Len(frames) + 1
            cand == Constructed(r)
            cube == Occupied(r.initial_cube) \cup Covered(r)
            Works(d) == CanPlace(Moved(LastCell(r), d, 1), d, r.segment_lengths, cube)
        IN  /\ ret = "False" =>
                 /\ (r.next_segment # 0) <=> (Recursed(r) /\ cand # <<>>)
                 /\ r.next_segment # 0 =>
                       /\ r.next_segment = n + 1
                       /\ chain[n + 1].direction = cand[Len(cand)]
                       /\ chain[n + 1].coords = Moved(LastCell(r), cand[Len(cand)], 1)
                       /\ \A i \in 1..Len(cand) : ~Works(cand[i])
            /\ (ret = "True" /\ r.segment_lengths # <<>>) =>
                 /\ r.next_segment = n + 1
                 /\ CompleteFrom(n)
                 /\ \E i \in 1..Len(cand) :
                       /\ chain[n + 1].direction = cand[i]
                       /\ Works(cand[i])
                       /\ \A j \in 1..(i - 1) : ~Works(cand[j])

\* A node deep in the search returns failure with a failed successor still
\* attached.
C9_Witness ==
    /\ ret = "False"
    /\ Len(frames) >= 2
    /\ Returning.next_segment = Len(frames) + 2
    /\ Len(Constructed(Returning)) >= 2

=============================================================================
